---------------------------- MODULE Spec2Model ----------------------------
(***************************************************************************)
(* A model of the imgapi manifest crate (src/src/manifest.rs):             *)
(*   - the enumerated domain types with their serde and strum renderings,  *)
(*   - ManifestBuilder and ImageVMPropertiesBuilder as derive_builder      *)
(*     generates them (mutable pattern: setters and build borrow),         *)
(*   - the serde wire encoding and decoding of Manifest, including the     *)
(*     renamed key "type" and the flattened Option<ImageVMProperties>.     *)
(* Strings whose spelling matters (variant identifiers and their wire and  *)
(* display forms) are sequences of one-character strings, so the case      *)
(* conversions are computed character by character.                        *)
(***************************************************************************)
EXTENDS Integers, Sequences, FiniteSets, TLC

VARIABLES
    mb,         \* ManifestBuilder: field name -> Option of the value set
    asked,      \* per ManifestBuilder setter, the argument of its latest call
    mbAlive,    \* the ManifestBuilder instance can still be used
    mbOut,      \* what the build just called returned (NotYet: none in hand)
    nBuilds,    \* calls of build on the ManifestBuilder instance
    nValues,    \* Manifest values the ManifestBuilder instance has yielded
    vb,         \* ImageVMPropertiesBuilder: field name -> Option
    vasked,     \* per ImageVMPropertiesBuilder setter, its latest argument
    vbOut,      \* what ImageVMPropertiesBuilder::build just returned
    en,         \* an enumerated value on its way through Display and serde
    man,        \* a Manifest value held by the caller
    wire,       \* a JSON object: key -> JSON value
    dec,        \* outcome of decoding wire into a Manifest
    wpc,        \* position of the encode/decode sequence
    tampered    \* wire is not the untouched encoding of man

builderVars == <<mb, asked, mbAlive, mbOut, nBuilds, nValues>>
vmVars      == <<vb, vasked, vbOut>>
enumVars    == <<en>>
wireVars    == <<man, wire, dec, wpc, tampered>>
vars        == <<mb, asked, mbAlive, mbOut, nBuilds, nValues,
                 vb, vasked, vbOut, en, man, wire, dec, wpc, tampered>>

(***************************************************************************)
(* Option<T> and Result<T, E>                                              *)
(***************************************************************************)
NoneV      == [some |-> FALSE]
Some(x)    == [some |-> TRUE, val |-> x]
IsSome(o)  == o.some
Ok(x)      == [ok |-> TRUE, val |-> x]
Err(e)     == [ok |-> FALSE, err |-> e]
NotYet     == [ok |-> FALSE, pending |-> TRUE]      \* no call has returned
Returned(o) == "pending" \notin DOMAIN o

(***************************************************************************)
(* Enumerated domain types                                                 *)
(***************************************************************************)
EnumTypes ==
    {"ImageState", "ImageType", "ImageOs", "ImageRequirementBootRom",
     "ImageFileCompression", "NetDrivers", "DiskDrivers"}

\* The variants of each enum, in declaration order.
Variants(t) ==
    CASE t = "ImageState" ->
           <<"Active", "Unactivated", "Disabled", "Creating", "Failed">>
      [] t = "ImageType" ->
           <<"ZoneDataset", "LxDataset", "Lxd", "Zvol", "Other">>
      [] t = "ImageOs" ->
           <<"Smartos", "Windows", "Linux", "Bsd", "Illumos", "Other">>
      [] t = "ImageRequirementBootRom" -> <<"Bios", "Uefi">>
      [] t = "ImageFileCompression" -> <<"Bzip2", "Gzip", "None">>
      [] t = "NetDrivers" -> <<"Virtio", "E1000g0">>
      [] t = "DiskDrivers" -> <<"Virtio", "Sata">>

VariantSet(t) == {Variants(t)[i] : i \in 1..Len(Variants(t))}

\* The Rust identifier of each variant, character by character.
Ident ==
    [ Active |-> <<"A","c","t","i","v","e">>,
      Unactivated |-> <<"U","n","a","c","t","i","v","a","t","e","d">>,
      Disabled |-> <<"D","i","s","a","b","l","e","d">>,
      Creating |-> <<"C","r","e","a","t","i","n","g">>,
      Failed |-> <<"F","a","i","l","e","d">>,
      ZoneDataset |-> <<"Z","o","n","e","D","a","t","a","s","e","t">>,
      LxDataset |-> <<"L","x","D","a","t","a","s","e","t">>,
      Lxd |-> <<"L","x","d">>,
      Zvol |-> <<"Z","v","o","l">>,
      Other |-> <<"O","t","h","e","r">>,
      Smartos |-> <<"S","m","a","r","t","o","s">>,
      Windows |-> <<"W","i","n","d","o","w","s">>,
      Linux |-> <<"L","i","n","u","x">>,
      Bsd |-> <<"B","s","d">>,
      Illumos |-> <<"I","l","l","u","m","o","s">>,
      Bios |-> <<"B","i","o","s">>,
      Uefi |-> <<"U","e","f","i">>,
      Bzip2 |-> <<"B","z","i","p","2">>,
      Gzip |-> <<"G","z","i","p">>,
      None |-> <<"N","o","n","e">>,
      Virtio |-> <<"V","i","r","t","i","o">>,
      E1000g0 |-> <<"E","1","0","0","0","g","0">>,
      Sata |-> <<"S","a","t","a">> ]

UpperChars ==
    <<"A","B","C","D","E","F","G","H","I","J","K","L","M",
      "N","O","P","Q","R","S","T","U","V","W","X","Y","Z">>
LowerChars ==
    <<"a","b","c","d","e","f","g","h","i","j","k","l","m",
      "n","o","p","q","r","s","t","u","v","w","x","y","z">>

IsUpper(c) == \E i \in 1..26 : UpperChars[i] = c
IsLower(c) == \E i \in 1..26 : LowerChars[i] = c
ToLower(c) ==
    IF IsUpper(c)
    THEN LowerChars[CHOOSE i \in 1..26 : UpperChars[i] = c]
    ELSE c
LowerAll(s) == [i \in 1..Len(s) |-> ToLower(s[i])]

\* serde's RenameRule::SnakeCase on a variant identifier: an underscore
\* before every upper-case character but the first, all lower-cased.
RECURSIVE SnakeFrom(_, _)
SnakeFrom(s, i) ==
    IF i > Len(s) THEN <<>>
    ELSE (IF i > 1 /\ IsUpper(s[i]) THEN <<"_">> ELSE <<>>)
         \o <<ToLower(s[i])>> \o SnakeFrom(s, i + 1)
SerdeSnakeCase(s) == SnakeFrom(s, 1)

\* serde's RenameRule::KebabCase: the snake_case form with '_' replaced by '-'.
SerdeKebabCase(s) ==
    LET sn == SerdeSnakeCase(s)
    IN  [i \in 1..Len(sn) |-> IF sn[i] = "_" THEN "-" ELSE sn[i]]

\* #[serde(rename_all = ...)] of each enum.
SerdeRenameAll(t) ==
    IF t = "ImageState" THEN "snake_case" ELSE "kebab-case"

\* The string serde writes for, and accepts as, variant v of enum t.
SerdeName(t, v) ==
    IF SerdeRenameAll(t) = "snake_case"
    THEN SerdeSnakeCase(Ident[v])
    ELSE SerdeKebabCase(Ident[v])

\* Deserialize of an enum from a JSON string.
SerdeDeserializeEnum(t, s) ==
    IF \E v \in VariantSet(t) : SerdeName(t, v) = s
    THEN Ok(CHOOSE v \in VariantSet(t) : SerdeName(t, v) = s)
    ELSE Err("unknown variant")

\* heck's kebab-case (strum serialize_all = "kebab-case"): the identifier is
\* cut into words where a lower-case run meets an upper-case character, and
\* before the last upper-case character of an upper-case run that a
\* lower-case character follows; the words are lower-cased and joined by '-'.
\* mode is "boundary", "lower" or "upper"; init is where the current word
\* starts; first says no word has been written yet.
RECURSIVE HeckFrom(_, _, _, _, _)
HeckFrom(s, i, init, mode, first) ==
    IF i > Len(s) THEN <<>>
    ELSE
      LET c    == s[i]
          sep  == IF first THEN <<>> ELSE <<"-">>
      IN  IF i = Len(s)
          THEN sep \o LowerAll(SubSeq(s, init, Len(s)))
          ELSE
            LET next     == s[i + 1]
                nextMode == IF IsLower(c) THEN "lower"
                            ELSE IF IsUpper(c) THEN "upper" ELSE mode
            IN  IF nextMode = "lower" /\ IsUpper(next)
                THEN sep \o LowerAll(SubSeq(s, init, i))
                     \o HeckFrom(s, i + 1, i + 1, "boundary", FALSE)
                ELSE IF mode = "upper" /\ IsUpper(c) /\ IsLower(next)
                THEN sep \o LowerAll(SubSeq(s, init, i - 1))
                     \o HeckFrom(s, i + 1, i, "boundary", FALSE)
                ELSE HeckFrom(s, i + 1, init, nextMode, first)
HeckKebabCase(s) == HeckFrom(s, 1, 1, "boundary", TRUE)

\* #[strum(serialize = "...")] on the variants of ImageType.
StrumSerialize ==
    [ ZoneDataset |-> <<"z","o","n","e","-","d","a","t","a","s","e","t">>,
      LxDataset   |-> <<"l","x","-","d","a","t","a","s","e","t">>,
      Lxd         |-> <<"l","x","d">>,
      Zvol        |-> <<"z","v","o","l">>,
      Other       |-> <<"o","t","h","e","r">> ]

\* What the strum attributes of enum t say: per-variant strings, a
\* serialize_all rule, or nothing.
StrumAttr(t) ==
    IF t = "ImageType" THEN "serialize"
    ELSE IF t \in {"NetDrivers", "DiskDrivers"} THEN "kebab-case"
    ELSE "none"

\* strum's derived Display (to_string): the serialize string when one is
\* given, the serialize_all casing when one is given, and otherwise the
\* variant identifier as written.
Display(t, v) ==
    CASE StrumAttr(t) = "serialize"  -> StrumSerialize[v]
      [] StrumAttr(t) = "kebab-case" -> HeckKebabCase(Ident[v])
      [] OTHER                       -> Ident[v]


(***************************************************************************)
(* JSON values (serde_json::Value).  An object is a function from its keys *)
(* to JSON values; the order of its entries is not modelled.               *)
(***************************************************************************)
JNull     == [t |-> "null"]
JBool(b)  == [t |-> "bool", b |-> b]
JNum(n)   == [t |-> "number", n |-> n]
JStr(s)   == [t |-> "string", s |-> s]
JArr(a)   == [t |-> "array", a |-> a]
JObj(o)   == [t |-> "object", o |-> o]

EmptyObj  == [k \in {} |-> JNull]

(***************************************************************************)
(* Types of the struct fields                                              *)
(***************************************************************************)
TString    == [k |-> "String"]
TBool      == [k |-> "bool"]
TI32       == [k |-> "i32"]
TI64       == [k |-> "i64"]
TU64       == [k |-> "u64"]
TUuid      == [k |-> "Uuid"]
TUrl       == [k |-> "Url"]
TDateTime  == [k |-> "DateTime"]
TJsonMap   == [k |-> "JsonMap"]      \* serde_json::Map<String, Value>
TStrMap    == [k |-> "StrMap"]       \* IndexMap<String, String>
TOption(T) == [k |-> "Option", of |-> T]
TVec(T)    == [k |-> "Vec", of |-> T]
TEnum(e)   == [k |-> "Enum", e |-> e]
TStruct(s) == [k |-> "Struct", s |-> s]

\* Fault variant of ImageTypeKey: the rename attribute left out.
ImageTypeKeyUnrenamed == "image_type"

\* #[serde(rename = "type")] on Manifest::image_type.
ImageTypeKey == "type"

\* A field: its Rust name, its wire key, its type, and whether it is
\* #[serde(flatten)].
Fld(name, ty)      == [name |-> name, key |-> name, ty |-> ty, flatten |-> FALSE]
FldAs(name, k, ty) == [name |-> name, key |-> k, ty |-> ty, flatten |-> FALSE]
FldFlat(name, ty)  == [name |-> name, key |-> name, ty |-> ty, flatten |-> TRUE]

\* struct Manifest, in declaration order.
ManifestFields ==
    << Fld("v", TI32),
       Fld("uuid", TUuid),
       Fld("owner", TUuid),
       Fld("name", TString),
       Fld("version", TString),
       Fld("description", TOption(TString)),
       Fld("homepage", TOption(TUrl)),
       Fld("eula", TOption(TUrl)),
       Fld("icon", TOption(TBool)),
       Fld("state", TEnum("ImageState")),
       Fld("error", TOption(TJsonMap)),
       Fld("disabled", TBool),
       Fld("public", TBool),
       Fld("published_at", TOption(TDateTime)),
       FldAs("image_type", ImageTypeKey, TEnum("ImageType")),
       Fld("os", TEnum("ImageOs")),
       Fld("origin", TOption(TUuid)),
       Fld("files", TVec(TJsonMap)),
       Fld("acl", TOption(TVec(TUuid))),
       Fld("requirements", TOption(TStruct("ImageRequirements"))),
       Fld("users", TOption(TVec(TStruct("ImageUsers")))),
       Fld("billing_tags", TOption(TVec(TString))),
       Fld("traits", TOption(TVec(TString))),
       Fld("tags", TOption(TStrMap)),
       Fld("generate_password", TOption(TBool)),
       Fld("inherited_directories", TOption(TVec(TString))),
       Fld("channels", TOption(TVec(TString))),
       FldFlat("vm_image_properties",
               TOption(TStruct("ImageVMProperties"))) >>

\* struct ImageRequirements.
ImageRequirementsFields ==
    << Fld("networks", TOption(TVec(TStruct("RequirementNetworks")))),
       Fld("brand", TOption(TString)),
       Fld("ssh_key", TOption(TBool)),
       Fld("min_ram", TOption(TI64)),
       Fld("max_ram", TOption(TI64)),
       Fld("min_platform", TOption(TStrMap)),
       Fld("max_platform", TOption(TStrMap)),
       Fld("bootrom", TOption(TEnum("ImageRequirementBootRom"))) >>

\* struct RequirementNetworks.
RequirementNetworksFields ==
    << Fld("name", TString), Fld("description", TString) >>

\* struct ImageUsers.
ImageUsersFields == << Fld("name", TString) >>

\* struct ImageVMProperties, in declaration order.
ImageVMPropertiesFields ==
    << Fld("nic_driver", TEnum("NetDrivers")),
       Fld("disk_driver", TEnum("DiskDrivers")),
       Fld("cpu_type", TString),
       Fld("image_size", TU64) >>

StructFields(s) ==
    CASE s = "Manifest"            -> ManifestFields
      [] s = "ImageRequirements"   -> ImageRequirementsFields
      [] s = "RequirementNetworks" -> RequirementNetworksFields
      [] s = "ImageUsers"          -> ImageUsersFields
      [] s = "ImageVMProperties"   -> ImageVMPropertiesFields

FieldIdx(s)    == 1..Len(StructFields(s))
FieldNames(s)  == {StructFields(s)[i].name : i \in FieldIdx(s)}
FieldOf(s, n)  ==
    StructFields(s)[CHOOSE i \in FieldIdx(s) : StructFields(s)[i].name = n]
PlainIdx(s)    == {i \in FieldIdx(s) : ~StructFields(s)[i].flatten}
FlatIdx(s)     == {i \in FieldIdx(s) : StructFields(s)[i].flatten}
PlainKeys(s)   == {StructFields(s)[i].key : i \in PlainIdx(s)}

(***************************************************************************)
(* Scalar values with a textual wire form.  A Uuid, Url or DateTime is     *)
(* written as a string by its formatter and read back by its parser.       *)
(***************************************************************************)
NilUuid == "Uuid::nil"

Uuids     == {NilUuid, "Uuid#1", "Uuid#2"}
Urls      == {"Url#home", "Url#eula"}
DateTimes == {"DateTime#1"}

ScalarValues(k) ==
    CASE k = "Uuid"     -> Uuids
      [] k = "Url"      -> Urls
      [] k = "DateTime" -> DateTimes

TextOf(x) ==
    CASE x = NilUuid      -> "00000000-0000-0000-0000-000000000000"
      [] x = "Uuid#1"     -> "f669428c-a939-11e2-a485-b790efc0f0c1"
      [] x = "Uuid#2"     -> "7b5981c4-1889-11e7-b4c5-3f3bdfc9b88b"
      [] x = "Url#home"   -> "https://example.org/"
      [] x = "Url#eula"   -> "https://example.org/eula"
      [] x = "DateTime#1" -> "2013-04-19T21:47:12Z"

ParseText(k, s) ==
    IF \E x \in ScalarValues(k) : TextOf(x) = s
    THEN Ok(CHOOSE x \in ScalarValues(k) : TextOf(x) = s)
    ELSE Err("invalid value")

(***************************************************************************)
(* derive(Serialize)                                                       *)
(***************************************************************************)
RECURSIVE Ser(_, _), SerStruct(_, _)

\* The JSON value of x : T.  None is written as null: no field of the
\* crate carries skip_serializing_if.
Ser(T, x) ==
    CASE T.k = "String"   -> JStr(x)
      [] T.k = "bool"     -> JBool(x)
      [] T.k \in {"i32", "i64", "u64"} -> JNum(x)
      [] T.k \in {"Uuid", "Url", "DateTime"} -> JStr(TextOf(x))
      [] T.k = "JsonMap"  -> JObj(x)
      [] T.k = "StrMap"   -> JObj([key \in DOMAIN x |-> JStr(x[key])])
      [] T.k = "Option"   -> IF IsSome(x) THEN Ser(T.of, x.val) ELSE JNull
      [] T.k = "Vec"      -> JArr([i \in 1..Len(x) |-> Ser(T.of, x[i])])
      [] T.k = "Enum"     -> JStr(SerdeName(T.e, x))
      [] T.k = "Struct"   -> JObj(SerStruct(T.s, x))

\* What a flattened field adds to the enclosing object: the entries of the
\* struct inside Some, and nothing for None.
SerFlat(T, x) ==
    IF T.k = "Option"
    THEN IF IsSome(x) THEN SerStruct(T.of.s, x.val) ELSE EmptyObj
    ELSE SerStruct(T.s, x)

RECURSIVE MergeFlat(_, _, _)
MergeFlat(s, x, idx) ==
    IF idx = {} THEN EmptyObj
    ELSE LET i == CHOOSE j \in idx : \A l \in idx : j <= l
             f == StructFields(s)[i]
         IN  SerFlat(f.ty, x[f.name]) @@ MergeFlat(s, x, idx \ {i})

\* The entries of the JSON object of struct value x: one per plain field
\* under its key, then those of the flattened fields.
SerStruct(s, x) ==
    [key \in PlainKeys(s) |->
        LET f == StructFields(s)[CHOOSE i \in PlainIdx(s) :
                                     StructFields(s)[i].key = key]
        IN  Ser(f.ty, x[f.name])]
    @@ MergeFlat(s, x, FlatIdx(s))

\* serde_json::to_value / to_string of a Manifest.
Encode(m) == SerStruct("Manifest", m)

(***************************************************************************)
(* derive(Deserialize)                                                     *)
(***************************************************************************)
RECURSIVE De(_, _), DeStruct(_, _)

DeSeq(T, a) ==
    LET r == [i \in 1..Len(a) |-> De(T, a[i])]
    IN  IF \A i \in 1..Len(a) : r[i].ok
        THEN Ok([i \in 1..Len(a) |-> r[i].val])
        ELSE Err(r[CHOOSE i \in 1..Len(a) :
                     ~r[i].ok /\ \A j \in 1..(i - 1) : r[j].ok].err)

De(T, j) ==
    CASE T.k = "String"  ->
           IF j.t = "string" THEN Ok(j.s) ELSE Err("invalid type")
      [] T.k = "bool"    ->
           IF j.t = "bool" THEN Ok(j.b) ELSE Err("invalid type")
      [] T.k \in {"i32", "i64"} ->
           IF j.t = "number" THEN Ok(j.n) ELSE Err("invalid type")
      [] T.k = "u64"     ->
           IF j.t # "number" THEN Err("invalid type")
           ELSE IF j.n < 0 THEN Err("invalid value") ELSE Ok(j.n)
      [] T.k \in {"Uuid", "Url", "DateTime"} ->
           IF j.t = "string" THEN ParseText(T.k, j.s)
           ELSE Err("invalid type")
      [] T.k = "JsonMap" ->
           IF j.t = "object" THEN Ok(j.o) ELSE Err("invalid type")
      [] T.k = "StrMap"  ->
           IF j.t # "object" THEN Err("invalid type")
           ELSE IF \E key \in DOMAIN j.o : j.o[key].t # "string"
           THEN Err("invalid type")
           ELSE Ok([key \in DOMAIN j.o |-> j.o[key].s])
      [] T.k = "Option"  ->
           IF j.t = "null" THEN Ok(NoneV)
           ELSE LET r == De(T.of, j)
                IN  IF r.ok THEN Ok(Some(r.val)) ELSE r
      [] T.k = "Vec"     ->
           IF j.t = "array" THEN DeSeq(T.of, j.a) ELSE Err("invalid type")
      [] T.k = "Enum"    ->
           IF j.t = "string" THEN SerdeDeserializeEnum(T.e, j.s)
           ELSE Err("invalid type")
      [] T.k = "Struct"  ->
           IF j.t = "object" THEN DeStruct(T.s, j.o)
           ELSE Err("invalid type")

\* A plain field from the object: its key's value decoded; without the key,
\* None for an Option and a missing-field error otherwise.
DePlain(f, o) ==
    IF f.key \in DOMAIN o THEN De(f.ty, o[f.key])
    ELSE IF f.ty.k = "Option" THEN Ok(NoneV)
    ELSE Err("missing field")

\* A flattened field from the entries no plain field claimed.  For
\* Option<T> serde decodes T from them and turns any failure into None
\* (Option's __private_visit_untagged_option is T::deserialize(..).ok()).
DeFlat(f, rest) ==
    IF f.ty.k = "Option"
    THEN LET r == DeStruct(f.ty.of.s, rest)
         IN  IF r.ok THEN Ok(Some(r.val)) ELSE Ok(NoneV)
    ELSE DeStruct(f.ty.s, rest)

\* A struct from a JSON object; keys no field names are ignored.
DeStruct(s, o) ==
    LET rest == [key \in (DOMAIN o) \ PlainKeys(s) |-> o[key]]
        r == [i \in FieldIdx(s) |->
                IF StructFields(s)[i].flatten
                THEN DeFlat(StructFields(s)[i], rest)
                ELSE DePlain(StructFields(s)[i], o)]
    IN  IF \A i \in FieldIdx(s) : r[i].ok
        THEN Ok([n \in FieldNames(s) |->
                   r[CHOOSE i \in FieldIdx(s) :
                       StructFields(s)[i].name = n].val])
        ELSE Err(r[CHOOSE i \in FieldIdx(s) :
                     ~r[i].ok /\ \A l \in FieldIdx(s) : l < i => r[l].ok].err)

\* serde_json::from_value / from_str into a Manifest.
Decode(o) == DeStruct("Manifest", o)

(***************************************************************************)
(* derive(Builder)                                                         *)
(***************************************************************************)
\* #[builder(setter(skip), default = "2")] on Manifest::v.
FormatVersion == 2

\* Fault variant of ImageStateDefault: #[default] on the first variant.
ImageStateDefaultFirst == "Active"

\* The #[default] variant of the enums that derive Default.
ImageStateDefault == "Creating"
ImageTypeDefault  == "ZoneDataset"
ImageOsDefault    == "Smartos"

EnumDefault(e) ==
    CASE e = "ImageState" -> ImageStateDefault
      [] e = "ImageType"  -> ImageTypeDefault
      [] e = "ImageOs"    -> ImageOsDefault

\* Default::default() of a field type that has one.
TypeDefault(T) ==
    CASE T.k = "Option" -> NoneV
      [] T.k = "Vec"    -> <<>>
      [] T.k = "Enum"   -> EnumDefault(T.e)

\* The fields whose #[builder(...)] says setter(skip).
SetterSkip(s) ==
    IF s = "Manifest" THEN {"v", "uuid", "owner"} ELSE {}

\* The fields whose setter says strip_option: the setter takes the T of an
\* Option<T> field and stores Some(T).
StripOption(s) ==
    IF s = "Manifest"
    THEN {"description", "homepage", "eula", "icon", "error", "published_at",
          "origin", "acl", "requirements", "users", "billing_tags", "traits",
          "tags", "generate_password", "inherited_directories", "channels",
          "vm_image_properties"}
    ELSE {}

\* Fault variant of NoDefault: `default` left out of Manifest::state.
NoDefaultStateToo(s) ==
    CASE s = "Manifest"          -> {"name", "version", "state"}
      [] s = "ImageVMProperties" ->
           {"nic_driver", "disk_driver", "cpu_type", "image_size"}

\* The fields whose #[builder(...)] gives no default: build fails without
\* them.
NoDefault(s) ==
    CASE s = "Manifest"          -> {"name", "version"}
      [] s = "ImageVMProperties" ->
           {"nic_driver", "disk_driver", "cpu_type", "image_size"}

\* The fields with an explicit default expression, and its value.
ExplicitDefault ==
    [ v        |-> FormatVersion,
      uuid     |-> NilUuid,
      owner    |-> NilUuid,
      disabled |-> FALSE,
      public   |-> FALSE ]

\* The value build uses for a field that was not set.
DefaultValue(s, n) ==
    IF s = "Manifest" /\ n \in DOMAIN ExplicitDefault
    THEN ExplicitDefault[n]
    ELSE TypeDefault(FieldOf(s, n).ty)

Settable(s) == FieldNames(s) \ SetterSkip(s)

\* XBuilder::default(): no field set.
NewBuilder(s) == [n \in Settable(s) |-> NoneV]

FieldsSet(b) == {n \in DOMAIN b : IsSome(b[n])}

\* Fault variant of SetField: the setter of `disabled` also writes `public`.
SetFieldDisabledAlsoPublic(s, b, n, x) ==
    IF n = "disabled"
    THEN [b EXCEPT !["disabled"] = Some(x), !["public"] = Some(x)]
    ELSE [b EXCEPT ![n] = Some(IF n \in StripOption(s) THEN Some(x) ELSE x)]

\* The setter of field n called with x: only that field changes, and the
\* latest value replaces the earlier one.
SetField(s, b, n, x) ==
    [b EXCEPT ![n] = Some(IF n \in StripOption(s) THEN Some(x) ELSE x)]

UninitializedField(n) == [kind |-> "UninitializedField", field |-> n]

\* The fields build finds neither set nor defaulted, by position.
MissingIdx(s, b) ==
    {i \in FieldIdx(s) :
        LET n == StructFields(s)[i].name
        IN  n \in NoDefault(s) /\ (n \in SetterSkip(s) \/ ~IsSome(b[n]))}

\* XBuilder::build(&self): the fields are filled in declaration order, and
\* the first one that is neither set nor defaulted ends the build with
\* UninitializedField of its name.
\* Fault variant of FirstMissing: the last missing field is reported.
LastMissing(s, b) ==
    StructFields(s)[CHOOSE i \in MissingIdx(s, b) :
                       \A j \in MissingIdx(s, b) : i >= j].name

FirstMissing(s, b) ==
    StructFields(s)[CHOOSE i \in MissingIdx(s, b) :
                       \A j \in MissingIdx(s, b) : i <= j].name

Build(s, b) ==
    IF MissingIdx(s, b) # {}
    THEN Err(UninitializedField(FirstMissing(s, b)))
    ELSE Ok([n \in FieldNames(s) |->
               IF n \in Settable(s) /\ IsSome(b[n]) THEN b[n].val
               ELSE DefaultValue(s, n)])

\* Fault variant of BuildConsumesBuilder: #[builder(pattern = "owned")].
BuildConsumesBuilderOwned == TRUE

\* derive_builder's default pattern is the mutable one: build takes &self
\* and clones, so the builder outlives the call.
BuildConsumesBuilder == FALSE

(***************************************************************************)
(* The values callers pass to the setters                                  *)
(***************************************************************************)
MaxOptionalSet == 1   \* defaulted fields set on one ManifestBuilder
MaxBuilds    == 2     \* build calls on one ManifestBuilder
MaxImageSize == 1     \* largest image_size passed to a setter

VMInputs(n) ==
    CASE n = "nic_driver"  -> VariantSet("NetDrivers")
      [] n = "disk_driver" -> VariantSet("DiskDrivers")
      [] n = "cpu_type"    -> {"default", "host"}
      [] n = "image_size"  -> 0..MaxImageSize

\* ImageVMProperties values: the one of test_manifest_builder_simple and
\* another that differs from it in every field.
VMProps ==
    { [nic_driver |-> "Virtio", disk_driver |-> "Virtio",
       cpu_type |-> "default", image_size |-> 0],
      [nic_driver |-> "E1000g0", disk_driver |-> "Sata",
       cpu_type |-> "host", image_size |-> MaxImageSize] }

NoRequirements ==
    [n \in FieldNames("ImageRequirements") |-> NoneV]
SomeRequirements ==
    [NoRequirements EXCEPT
        !["networks"] = Some(<<[name |-> "net0", description |-> "public"]>>),
        !["brand"]    = Some("bhyve"),
        !["min_ram"]  = Some(1024),
        !["bootrom"]  = Some("Uefi")]

ManifestInputs(n) ==
    CASE n = "name"        -> {"test_manifest", "blubber"}
      [] n = "version"     -> {"v1.0", "0.1.0"}
      [] n = "description" -> {"a description"}
      [] n = "homepage"    -> {"Url#home"}
      [] n = "eula"        -> {"Url#eula"}
      [] n = "icon"        -> BOOLEAN
      [] n = "state"       -> VariantSet("ImageState")
      [] n = "error"       -> {[message |-> JStr("boom")]}
      [] n = "disabled"    -> BOOLEAN
      [] n = "public"      -> BOOLEAN
      [] n = "published_at" -> DateTimes
      [] n = "image_type"  -> VariantSet("ImageType")
      [] n = "os"          -> VariantSet("ImageOs")
      [] n = "origin"      -> {"Uuid#1"}
      [] n = "files"       -> {<<>>, <<[sha1 |-> JStr("da39a3ee"),
                                       size |-> JNum(42)]>>}
      [] n = "acl"         -> {<<"Uuid#1", "Uuid#2">>}
      [] n = "requirements" -> {NoRequirements, SomeRequirements}
      [] n = "users"       -> {<<[name |-> "root"], [name |-> "admin"]>>}
      [] n = "billing_tags" -> {<<"xxl">>}
      [] n = "traits"      -> {<<"ssd">>}
      [] n = "tags"        -> {[role |-> "db"]}
      [] n = "generate_password" -> BOOLEAN
      [] n = "inherited_directories" -> {<<"/opt">>}
      [] n = "channels"    -> {<<"dev">>}
      [] n = "vm_image_properties" -> VMProps

(***************************************************************************)
(* ManifestBuilder as a state machine                                      *)
(***************************************************************************)
IdleBuilder ==
    /\ mb = NewBuilder("Manifest")
    /\ asked = [n \in Settable("Manifest") |-> NoneV]
    /\ mbAlive = TRUE
    /\ mbOut = NotYet
    /\ nBuilds = 0
    /\ nValues = 0
IdleVM ==
    /\ vb = NewBuilder("ImageVMProperties")
    /\ vasked = [n \in Settable("ImageVMProperties") |-> NoneV]
    /\ vbOut = NotYet
IdleEnum == en = [pc |-> "idle"]
IdleWire ==
    /\ man = NoneV
    /\ wire = EmptyObj
    /\ dec = NotYet
    /\ wpc = "idle"
    /\ tampered = FALSE

\* ManifestBuilder::<n>(x)
MSet(n, x) ==
    /\ mbAlive
    /\ \/ n \in {"name", "version"}
       \/ IsSome(asked[n])
       \/ Cardinality(FieldsSet(asked) \ {"name", "version"}) < MaxOptionalSet
    /\ mb' = SetField("Manifest", mb, n, x)
    /\ asked' = [asked EXCEPT ![n] = Some(x)]
    /\ mbOut' = NotYet
    /\ UNCHANGED <<mbAlive, nBuilds, nValues>>
    /\ UNCHANGED <<vmVars, enumVars, wireVars>>

\* ManifestBuilder::build()
MBuild ==
    /\ mbAlive
    /\ nBuilds < MaxBuilds
    /\ mbOut' = Build("Manifest", mb)
    /\ mbAlive' = ~BuildConsumesBuilder
    /\ nBuilds' = nBuilds + 1
    /\ nValues' = IF Build("Manifest", mb).ok THEN nValues + 1 ELSE nValues
    /\ UNCHANGED <<mb, asked>>
    /\ UNCHANGED <<vmVars, enumVars, wireVars>>

Init == IdleBuilder /\ IdleVM /\ IdleEnum /\ IdleWire

NextBuilder ==
    \/ \E n \in Settable("Manifest") : \E x \in ManifestInputs(n) : MSet(n, x)
    \/ MBuild
SpecBuilder == Init /\ [][NextBuilder]_vars

(***************************************************************************)
(* ImageVMPropertiesBuilder as a state machine                             *)
(***************************************************************************)
\* ImageVMPropertiesBuilder::<n>(x)
VSet(n, x) ==
    /\ vb' = SetField("ImageVMProperties", vb, n, x)
    /\ vasked' = [vasked EXCEPT ![n] = Some(x)]
    /\ vbOut' = NotYet
    /\ UNCHANGED <<builderVars, enumVars, wireVars>>

\* ImageVMPropertiesBuilder::build()
VBuild ==
    /\ vbOut' = Build("ImageVMProperties", vb)
    /\ UNCHANGED <<vb, vasked>>
    /\ UNCHANGED <<builderVars, enumVars, wireVars>>

NextVM ==
    \/ \E n \in Settable("ImageVMProperties") : \E x \in VMInputs(n) : VSet(n, x)
    \/ VBuild
SpecVM == Init /\ [][NextVM]_vars

(***************************************************************************)
(* An enumerated value rendered, encoded, decoded and encoded again        *)
(***************************************************************************)
Bogus == <<"b","o","g","u","s">>

\* The strings handed to the enum decoders: every wire form, every Display
\* form, and one that is neither.
StringPool ==
    {SerdeName(t, v) : <<t, v>> \in {p \in EnumTypes \X DOMAIN Ident :
                                        p[2] \in VariantSet(p[1])}}
    \cup {Display(t, v) : <<t, v>> \in {p \in EnumTypes \X DOMAIN Ident :
                                          p[2] \in VariantSet(p[1])}}
    \cup {Bogus}

\* The caller holds variant v of enum t.
EnumPick(t, v) ==
    /\ en.pc = "idle"
    /\ en' = [pc |-> "picked", type |-> t, variant |-> v, shown |-> <<>>,
              text |-> <<>>, back |-> NotYet, again |-> <<>>]
    /\ UNCHANGED <<builderVars, vmVars, wireVars>>

\* v.to_string()
EnumDisplay ==
    /\ en.pc = "picked"
    /\ en' = [en EXCEPT !.pc = "shown",
                        !.shown = Display(en.type, en.variant)]
    /\ UNCHANGED <<builderVars, vmVars, wireVars>>

\* serde_json::to_value(&v): the JSON string of the variant
EnumSerialize ==
    /\ en.pc = "shown"
    /\ en' = [en EXCEPT !.pc = "encoded",
                        !.text = SerdeName(en.type, en.variant)]
    /\ UNCHANGED <<builderVars, vmVars, wireVars>>

\* serde_json::from_value of the string just written
EnumDeserialize ==
    /\ en.pc = "encoded"
    /\ en' = [en EXCEPT !.pc = "decoded",
                        !.back = SerdeDeserializeEnum(en.type, en.text)]
    /\ UNCHANGED <<builderVars, vmVars, wireVars>>

\* the decoded variant encoded again
EnumReserialize ==
    /\ en.pc = "decoded"
    /\ en.back.ok
    /\ en' = [en EXCEPT !.pc = "reencoded",
                        !.again = SerdeName(en.type, en.back.val)]
    /\ UNCHANGED <<builderVars, vmVars, wireVars>>

\* serde_json::from_value of any string into enum t
EnumParse(t, s) ==
    /\ en.pc = "idle"
    /\ en' = [pc |-> "parsed", type |-> t, text |-> s,
              back |-> SerdeDeserializeEnum(t, s)]
    /\ UNCHANGED <<builderVars, vmVars, wireVars>>

NextEnum ==
    \/ \E t \in EnumTypes : \E v \in VariantSet(t) : EnumPick(t, v)
    \/ EnumDisplay
    \/ EnumSerialize
    \/ EnumDeserialize
    \/ EnumReserialize
    \/ \E t \in EnumTypes : \E s \in StringPool : EnumParse(t, s)
SpecEnum == Init /\ [][NextEnum]_vars

(***************************************************************************)
(* A Manifest encoded to a wire object and a wire object decoded           *)
(***************************************************************************)
\* The builders a caller can have filled: name and version set, and up to k
\* of the defaulted fields.
RECURSIVE BuildersWithin(_)
BuildersWithin(k) ==
    IF k = 0
    THEN {SetField("Manifest",
                   SetField("Manifest", NewBuilder("Manifest"),
                            "name", "blubber"),
                   "version", "0.1.0")}
    ELSE LET prev == BuildersWithin(k - 1)
             opt  == Settable("Manifest") \ NoDefault("Manifest")
         IN  prev \cup
             UNION {UNION {{SetField("Manifest", b, n, x) :
                              x \in ManifestInputs(n)} : n \in opt} :
                    b \in prev}

\* The Manifest values the wire actions start from.
WireManifests ==
    {Build("Manifest", b).val : b \in BuildersWithin(MaxOptionalSet)}

\* The wire keys of the fields holding an enum, with the enum.
EnumKeys ==
    [ type        |-> "ImageType",
      state       |-> "ImageState",
      os          |-> "ImageOs",
      nic_driver  |-> "NetDrivers",
      disk_driver |-> "DiskDrivers" ]

\* What a wire object from elsewhere may hold under a key instead of what
\* Encode writes there.
ForeignValues(key) ==
    IF key \in DOMAIN EnumKeys
    THEN {JStr(Bogus), JStr(Ident["Zvol"]), JNull}
    ELSE IF key = "v" THEN {JNum(1), JNum(3), JStr("2")}
    ELSE IF key = "image_size" THEN {JNum(-1), JNull}
    ELSE {JNull, JNum(0)}

ForeignKeys ==
    (DOMAIN EnumKeys)
    \cup {"v", "name", "description", "image_size", "cpu_type", "files"}

\* The caller holds Manifest m.
WHold(m) ==
    /\ wpc = "idle"
    /\ man' = m
    /\ wpc' = "held"
    /\ UNCHANGED <<wire, dec, tampered>>
    /\ UNCHANGED <<builderVars, vmVars, enumVars>>

\* serde_json::to_value(&man)
WEncode ==
    /\ wpc = "held"
    /\ wire' = Encode(man)
    /\ wpc' = "encoded"
    /\ UNCHANGED <<man, dec, tampered>>
    /\ UNCHANGED <<builderVars, vmVars, enumVars>>

\* The wire object is one from elsewhere: it differs from the encoding of
\* man in the value under one key,
WForeignValue(key, j) ==
    /\ wpc = "encoded"
    /\ ~tampered
    /\ key \in DOMAIN wire
    /\ wire' = [wire EXCEPT ![key] = j]
    /\ tampered' = TRUE
    /\ UNCHANGED <<man, dec, wpc>>
    /\ UNCHANGED <<builderVars, vmVars, enumVars>>

\* or it lacks one key.
WForeignMissing(key) ==
    /\ wpc = "encoded"
    /\ ~tampered
    /\ key \in DOMAIN wire
    /\ wire' = [k \in (DOMAIN wire) \ {key} |-> wire[k]]
    /\ tampered' = TRUE
    /\ UNCHANGED <<man, dec, wpc>>
    /\ UNCHANGED <<builderVars, vmVars, enumVars>>

\* serde_json::from_value::<Manifest>(wire)
WDecode ==
    /\ wpc = "encoded"
    /\ dec' = Decode(wire)
    /\ wpc' = "decoded"
    /\ UNCHANGED <<man, wire, tampered>>
    /\ UNCHANGED <<builderVars, vmVars, enumVars>>

NextWire ==
    \/ \E m \in WireManifests : WHold(m)
    \/ WEncode
    \/ \E key \in ForeignKeys : \E j \in ForeignValues(key) :
         WForeignValue(key, j)
    \/ \E key \in ForeignKeys : WForeignMissing(key)
    \/ WDecode
SpecWire == Init /\ [][NextWire]_vars

(***************************************************************************)
(* Properties                                                              *)
(***************************************************************************)
WasSet(n)  == IsSome(asked[n])
VWasSet(n) == IsSome(vasked[n])

ManifestOptionFields ==
    {"description", "homepage", "eula", "icon", "error", "published_at",
     "origin", "acl", "requirements", "users", "billing_tags", "traits",
     "tags", "generate_password", "inherited_directories", "channels",
     "vm_image_properties"}

\* C1 as stated: a build without `name` fails with UninitializedField("name"),
\* a build without `version` fails with UninitializedField("version"), and a
\* build with both set succeeds whatever else was or was not set.
C1_EachMissingFieldNamed ==
    Returned(mbOut) =>
        /\ ~WasSet("name") => mbOut = Err(UninitializedField("name"))
        /\ ~WasSet("version") => mbOut = Err(UninitializedField("version"))
        /\ WasSet("name") /\ WasSet("version") => mbOut.ok

\* C1 amended: a build without `name` fails with UninitializedField("name")
\* (also when `version` is missing too); a build with `name` but without
\* `version` fails with UninitializedField("version"); a build with both set
\* succeeds whatever else was or was not set.
C1_FirstMissingFieldNamed ==
    Returned(mbOut) =>
        /\ ~WasSet("name") => mbOut = Err(UninitializedField("name"))
        /\ WasSet("name") /\ ~WasSet("version") =>
             mbOut = Err(UninitializedField("version"))
        /\ WasSet("name") /\ WasSet("version") => mbOut.ok

\* A build that failed for `version` alone, with `error` set and `state` not.
C1_Witness ==
    /\ Returned(mbOut)
    /\ WasSet("name") /\ ~WasSet("version")
    /\ WasSet("error") /\ ~WasSet("state")
    /\ mbOut = Err(UninitializedField("version"))

\* C2: a Manifest built with only `name` and `version` set has v = 2, nil
\* uuid and owner, state Creating, image_type ZoneDataset, os Smartos,
\* disabled and public false, no files, and every optional field absent.
C2_DefaultsOfMinimalManifest ==
    Returned(mbOut) /\ FieldsSet(asked) = {"name", "version"} =>
        /\ mbOut.ok
        /\ mbOut.val.v = 2
        /\ mbOut.val.uuid = NilUuid
        /\ TextOf(mbOut.val.uuid) = "00000000-0000-0000-0000-000000000000"
        /\ mbOut.val.owner = NilUuid
        /\ mbOut.val.name = asked["name"].val
        /\ mbOut.val.version = asked["version"].val
        /\ mbOut.val.state = "Creating"
        /\ mbOut.val.image_type = "ZoneDataset"
        /\ mbOut.val.os = "Smartos"
        /\ mbOut.val.disabled = FALSE
        /\ mbOut.val.public = FALSE
        /\ mbOut.val.files = <<>>
        /\ \A n \in ManifestOptionFields : mbOut.val[n] = NoneV

\* The build of test_manifest_builder_simple.
C2_Witness ==
    /\ Returned(mbOut)
    /\ FieldsSet(asked) = {"name", "version"}
    /\ mbOut.ok
    /\ mbOut.val.name = "test_manifest"
    /\ mbOut.val.version = "v1.0"

VMValueAsked ==
    [n \in {"nic_driver", "disk_driver", "cpu_type", "image_size"} |->
        vasked[n].val]

\* C3 as stated: without image_size the build fails with
\* UninitializedField("image_size") whichever other fields were set; with all
\* four fields set it returns exactly those values.
C3_ImageSizeNamed ==
    Returned(vbOut) =>
        /\ ~VWasSet("image_size") =>
             vbOut = Err(UninitializedField("image_size"))
        /\ (\A n \in DOMAIN vasked : VWasSet(n)) => vbOut = Ok(VMValueAsked)

\* C3 amended: without image_size the build fails with UninitializedField of
\* the first unset field in the order nic_driver, disk_driver, cpu_type,
\* image_size, which is image_size exactly when the other three were set;
\* with all four fields set it returns exactly those values.
C3_FirstUnsetNamed ==
    Returned(vbOut) =>
        /\ ~VWasSet("image_size") =>
             vbOut = Err(UninitializedField(
                       IF ~VWasSet("nic_driver") THEN "nic_driver"
                       ELSE IF ~VWasSet("disk_driver") THEN "disk_driver"
                       ELSE IF ~VWasSet("cpu_type") THEN "cpu_type"
                       ELSE "image_size"))
        /\ (\A n \in DOMAIN vasked : VWasSet(n)) => vbOut = Ok(VMValueAsked)

\* A build without image_size and without disk_driver.
C3_Witness ==
    /\ Returned(vbOut)
    /\ VWasSet("nic_driver") /\ ~VWasSet("disk_driver")
    /\ VWasSet("cpu_type") /\ ~VWasSet("image_size")
    /\ vbOut = Err(UninitializedField("disk_driver"))

\* C4: every variant has one canonical string: what Display renders is what
\* serde writes, decoding it yields the variant, and encoding the decoded
\* variant yields the same string.
C4_OneCanonicalString ==
    /\ en.pc \in {"encoded", "decoded", "reencoded"} => en.shown = en.text
    /\ en.pc \in {"decoded", "reencoded"} => en.back = Ok(en.variant)
    /\ en.pc = "reencoded" => en.again = en.text

VMKeys == {"nic_driver", "disk_driver", "cpu_type", "image_size"}

\* C5: decoding the encoding of a Manifest yields that Manifest; the encoding
\* holds image_type under "type"; a present vm_image_properties is written
\* as four top-level keys and read back from them, and an absent one writes
\* none of them and is read back as absent.
C5_ManifestRoundTrip ==
    wpc \in {"encoded", "decoded"} /\ ~tampered =>
        /\ "type" \in DOMAIN wire
        /\ "image_type" \notin DOMAIN wire
        /\ wire["type"] = JStr(SerdeName("ImageType", man.image_type))
        /\ "vm_image_properties" \notin DOMAIN wire
        /\ IF IsSome(man.vm_image_properties)
           THEN /\ VMKeys \subseteq DOMAIN wire
                /\ wire["nic_driver"] =
                     JStr(SerdeName("NetDrivers",
                                    man.vm_image_properties.val.nic_driver))
                /\ wire["disk_driver"] =
                     JStr(SerdeName("DiskDrivers",
                                    man.vm_image_properties.val.disk_driver))
                /\ wire["cpu_type"] =
                     JStr(man.vm_image_properties.val.cpu_type)
                /\ wire["image_size"] =
                     JNum(man.vm_image_properties.val.image_size)
           ELSE VMKeys \cap DOMAIN wire = {}
        /\ wpc = "decoded" => dec = Ok(man)

\* A Manifest with vm_image_properties that went through the wire.
C5_Witness ==
    /\ wpc = "decoded"
    /\ ~tampered
    /\ IsSome(man.vm_image_properties)
    /\ dec.ok
    /\ dec.val.vm_image_properties = man.vm_image_properties

\* The enum key of the wire object holds a string that is no wire form of
\* the enum.
Unrecognized(key) ==
    /\ key \in DOMAIN wire
    /\ wire[key].t = "string"
    /\ \A v \in VariantSet(EnumKeys[key]) :
          wire[key].s # SerdeName(EnumKeys[key], v)

\* C6: a wire object holding an unrecognized string under "type", "state",
\* "os", "nic_driver" or "disk_driver" never decodes to a Manifest.
C6_UnrecognizedEnumRejected ==
    wpc = "decoded" /\ (\E key \in DOMAIN EnumKeys : Unrecognized(key))
        => ~dec.ok

\* C7: every Manifest that exists, built or decoded, has v = 2.
C7_FormatVersionIs2 ==
    /\ wpc # "idle" => man.v = 2
    /\ wpc = "decoded" /\ dec.ok => dec.val.v = 2

\* C8: the encoding of a Manifest has no key for an optional field that is
\* absent.
C8_AbsentFieldOmitted ==
    wpc = "encoded" /\ ~tampered =>
        \A i \in FieldIdx("Manifest") :
            LET f == StructFields("Manifest")[i]
            IN  f.ty.k = "Option" /\ man[f.name] = NoneV =>
                  IF f.flatten THEN VMKeys \cap DOMAIN wire = {}
                  ELSE f.key \notin DOMAIN wire

Stored(n, x) == IF n \in ManifestOptionFields THEN Some(x) ELSE x

\* C10: the outcome of build is determined by the latest argument of each
\* setter (a setter changes its own field only, fields never set take their
\* default); build leaves the accumulated state as it was, and building again
\* over the same state yields the same outcome.
C10_BuildIsPure ==
    /\ [](Returned(mbOut) /\ mbOut.ok =>
            \A n \in Settable("Manifest") :
                mbOut.val[n] = IF WasSet(n) THEN Stored(n, asked[n].val)
                               ELSE DefaultValue("Manifest", n))
    /\ [][nBuilds' # nBuilds =>
            /\ mb' = mb
            /\ Returned(mbOut) => mbOut' = mbOut]_vars

\* A second build, after a setter call that followed a failed first build.
C10_Witness ==
    /\ nBuilds = 2 /\ nValues = 1
    /\ mbOut.ok
    /\ WasSet("disabled")
    /\ mbOut.val.disabled = TRUE

=============================================================================
